---- MODULE Spec2Model ----
(***************************************************************************)
(* A model of ReflectSimulator (platypus-simulate/tof_simulator.py): the   *)
(* Monte Carlo accumulation of direct-beam and reflected-beam histograms   *)
(* and of the per-bin resolution-kernel store by run(samples,              *)
(* random_state), and the two derived properties reflectivity and          *)
(* resolution_kernel.                                                      *)
(*                                                                         *)
(* Real quantities are fixed-point integers.  A raw uniform variate is an  *)
(* integer 0..RngRange-1 standing for raw/RngRange in [0, 1); a            *)
(* reflectivity is counted in the same units, so RngRange stands for 1.0.  *)
(* Wavelengths and angles are integers in instrument units.                *)
(***************************************************************************)
EXTENDS Integers, Sequences, FiniteSets

VARIABLES
    wavelength_bins,           \* self.wavelength_bins: the N+1 bin edges
    direct_beam,               \* self.direct_beam: 0..N-1 -> count
    reflected_beam,            \* self.reflected_beam: 0..N-1 -> count
    _res_kernel,               \* self._res_kernel: dict bin -> stored q values
    force_gaussian,            \* self.force_gaussian
    force_uniform_wavelength,  \* self.force_uniform_wavelength
    model,                     \* self.model: which reflectivity callable
    mt_rand,                   \* state of numpy's global RandomState singleton
    op,                        \* the operation called last
    ret,                       \* what the operation called last returned
    runlog,                    \* the latest run calls (at most two), newest last:
                               \* their arguments and the state they started in
    calls                      \* number of operations called so far

vars == <<wavelength_bins, direct_beam, reflected_beam, _res_kernel,
          force_gaussian, force_uniform_wavelength, model, mt_rand,
          op, ret, runlog, calls>>

\* ------------------------------------------------------------- bounds
\* operations called in one behaviour
MaxCalls == 3
\* largest sample count of one run call
MaxSamples == 2
\* the cap on the stored q values of a bin: the source's 500000, scaled down
\* to the model's batch sizes
Cap == 1

\* ---------------------------------------------------- random generator
\* A numpy RandomState is a deterministic stream fixed by its seed; it is
\* modelled by a full-period linear congruential generator.
RngModulus == 32
RngRange == 4

RngNext(x) == (13 * x + 7) % RngModulus

\* the variate the generator gives in state x, as a fraction of RngRange
RngOut(x) == ((x \div 8) + x) % RngRange

\* RandomState(seed): the state a fresh generator starts in
RngSeed(seed) == seed % RngModulus

RECURSIVE RngDraw(_, _)
\* the next n raw variates of a generator in state x
RngDraw(x, n) ==
    IF n = 0 THEN <<>>
    ELSE <<RngOut(RngNext(x))>> \o RngDraw(RngNext(x), n - 1)

RECURSIVE RngAdvance(_, _)
\* the state of a generator in state x after n variates were drawn
RngAdvance(x, n) == IF n = 0 THEN x ELSE RngAdvance(RngNext(x), n - 1)

\* the integer seeds a caller passes as random_state
Seeds == {20}

\* the seeds numpy may have given its global generator at import
Entropy == {3, 20}

\* random_state as run receives it: None, or an integer seed
NoneRS == <<>>
IntRS(seed) == <<seed>>

\* check_random_state with the seed ignored: always the global generator
check_random_state_global(random_state) == mt_rand

\* check_random_state(random_state): the state of the generator run draws from
check_random_state(random_state) ==
    IF random_state = NoneRS THEN mt_rand ELSE RngSeed(random_state[1])

\* ------------------------------------------------------- configuration
\* self.angle, the nominal angle of incidence
angle == 8

\* lo_wavelength and hi_wavelength, and the width that stands for 1 Angstrom
lo_wavelength == 8
hi_wavelength == 16
Angstrom == 4

\* calculate_wavelength_bins(lo_wavelength, hi_wavelength, rebin)
calculate_wavelength_bins == <<lo_wavelength, 12, hi_wavelength>>

\* the number of wavelength bins, wavelength_bins.size - 1
NBins == Len(wavelength_bins) - 1
Bins == 0 .. (NBins - 1)

\* the reflectivity callables a simulator is constructed with
Models == {"zero", "film", "wild"}

Num(v) == [nan |-> FALSE, val |-> v]
NaN == [nan |-> TRUE, val |-> 0]

\* self.model(q, x_err=0.): the reflectivity at q, RngRange standing for 1.0.
\* "zero" is identically 0; "film" is totally reflecting below a critical
\* edge and decays above it; "wild" also returns values above 1, below 0
\* and NaN, which run does not correct.
ReflectModel(q) ==
    CASE model = "zero" -> Num(0)
      [] model = "film" -> IF q < 24 THEN Num(RngRange)
                           ELSE IF q < 40 THEN Num(2) ELSE Num(1)
      [] OTHER          -> IF q < 24 THEN Num(RngRange + 2)
                           ELSE IF q < 40 THEN NaN ELSE Num(0 - 1)

\* --------------------------------------------------- the distributions
\* the standard normal variate a raw variate maps to, in quarters of sigma
Normal(u) == <<0 - 8, 0 - 2, 2, 8>>[u + 1]

\* self.angular_dist.rvs: one angular offset from one raw variate; the
\* trapezoid's ppf, or the Gaussian scaled by div / 2.3548
AngularRvs(u) ==
    IF force_gaussian THEN Normal(u) \div 4
    ELSE <<0 - 1, 0, 0, 1>>[u + 1]

\* SpectrumDist tabulates its cdf on a grid at construction (1000 points in
\* the source) over the support [lo_wavelength - 1, hi_wavelength + 1]
_x_interpolated_cdf == <<lo_wavelength - Angstrom, 9, 14, hi_wavelength + Angstrom>>
_interpolated_cdf == <<0, 1, 3, RngRange>>

\* np.interp(x, xp, fp) for xp[1] <= x < xp[Len(xp)]: linear interpolation
\* between the two grid points around x
Interp(x, xp, fp) ==
    LET k == CHOOSE j \in 1 .. (Len(xp) - 1) : xp[j] <= x /\ x < xp[j + 1]
    IN  fp[k] + ((x - xp[k]) * (fp[k + 1] - fp[k])) \div (xp[k + 1] - xp[k])

\* SpectrumDist._ppf
SpectrumPpf(u) == Interp(u, _interpolated_cdf, _x_interpolated_cdf)

\* self.spectrum_dist.rvs: one wavelength from one raw variate; uniform on
\* [lo_wavelength - 1, hi_wavelength], or the measured spectrum
SpectrumRvs(u) ==
    IF force_uniform_wavelength
    THEN (lo_wavelength - Angstrom)
         + ((hi_wavelength - lo_wavelength + Angstrom) * u) \div RngRange
    ELSE SpectrumPpf(u)

\* general.q(angles, wavelengths), 4 pi sin(angle) / wavelength
GeneralQ(a, w) == (32 * a) \div w

\* accepted = criterion <= r
AcceptedOrEqual(criterion, r) == ~r.nan /\ criterion <= r.val

\* accepted = criterion < r; a comparison with NaN is False
Accepted(criterion, r) == ~r.nan /\ criterion < r.val

\* the jittered wavelength of one sample from its wavelength and the raw
\* variate of its noise: Gaussian noise scaled by dlambda / 2.3548, or
\* uniform(-0.5, 0.5) noise scaled by dlambda / 0.68
Jitter(w, u) ==
    IF force_gaussian
    THEN (w * (16 + Normal(u))) \div 16
    ELSE (w * (RngRange + (u - RngRange \div 2))) \div RngRange

\* the samples of one run call drawn from a generator in state x: four
\* blocks of n variates in the order run draws them (angles, wavelengths,
\* criterion, noise), and the generator's state afterwards
Batch(x, n) ==
    LET x1 == RngAdvance(x, n)
        x2 == RngAdvance(x1, n)
        x3 == RngAdvance(x2, n)
        ua == RngDraw(x, n)
        uw == RngDraw(x1, n)
        uc == RngDraw(x2, n)
        un == RngDraw(x3, n)
        angles == [k \in 1 .. n |-> AngularRvs(ua[k]) + angle]
        wavelengths == [k \in 1 .. n |-> SpectrumRvs(uw[k])]
        q == [k \in 1 .. n |-> GeneralQ(angles[k], wavelengths[k])]
        r == [k \in 1 .. n |-> ReflectModel(q[k])]
        accepted == [k \in 1 .. n |-> Accepted(uc[k], r[k])]
        jittered == [k \in 1 .. n |-> Jitter(wavelengths[k], un[k])]
    IN  [samples |-> n, q |-> q, accepted |-> accepted,
         jittered_wavelengths |-> jittered, rng |-> RngAdvance(x3, n)]

\* ------------------------------------------------------------ binning
\* np.histogram(a, bins): value x is counted in bin i (from 0) when
\* bins[i] <= x < bins[i+1]; the last bin also takes x = bins[-1]
InHistBin(x, i) ==
    /\ wavelength_bins[i + 1] <= x
    /\ \/ x < wavelength_bins[i + 2]
       \/ i = NBins - 1 /\ x = wavelength_bins[NBins + 1]

\* np.histogram(jittered_wavelengths[mask], self.wavelength_bins)[0]
Histogram(b, mask) ==
    [i \in Bins |->
        Cardinality({k \in 1 .. b.samples :
                        mask[k] /\ InHistBin(b.jittered_wavelengths[k], i)})]

\* the direct-beam histogram taken over the rejected samples only
RejectedSamples(b) == [k \in 1 .. b.samples |-> ~b.accepted[k]]

\* the mask of the direct-beam histogram: every sample of the batch
AllSamples(b) == [k \in 1 .. b.samples |-> TRUE]

\* np.digitize(x, self.wavelength_bins, right=True): the number of edges < x
DigitizeRight(x) ==
    Cardinality({j \in 1 .. Len(wavelength_bins) : wavelength_bins[j] < x})

\* np.digitize(x, self.wavelength_bins): the number of edges <= x
Digitize(x) ==
    Cardinality({j \in 1 .. Len(wavelength_bins) : wavelength_bins[j] <= x})

\* astype(np.float32): the value rounded to the coarser grid
Float32(v) == 2 * ((v + 1) \div 2)

RECURSIVE QForBin(_, _, _)
\* q[bin_loc == i] for the first k samples of batch b, in sample order
QForBin(b, i, k) ==
    IF k = 0 THEN <<>>
    ELSE QForBin(b, i, k - 1)
         \o (IF Digitize(b.jittered_wavelengths[k]) = i
             THEN <<b.q[k]>> ELSE <<>>)

\* self._res_kernel.get(i, np.array([]))
KernelGet(kernel, i) == IF i \in DOMAIN kernel THEN kernel[i] ELSE <<>>

\* the early return taken one value late: the shortest list holds more than
\* the cap plus one
KernelFullLate(kernel) ==
    /\ DOMAIN kernel # {}
    /\ \A i \in DOMAIN kernel : Len(kernel[i]) > Cap + 1

\* the test of run's early return: the store is non-empty and its shortest
\* list holds more than the cap
KernelFull(kernel) ==
    /\ DOMAIN kernel # {}
    /\ \A i \in DOMAIN kernel : Len(kernel[i]) > Cap

\* the update loop storing only the bins that got a sample of this batch
KernelUpdateSparse(kernel, b) ==
    LET hit == {i \in Bins : i \in DOMAIN kernel \/ QForBin(b, i + 1, b.samples) # <<>>}
    IN  [i \in hit |->
            LET updated_samples == KernelGet(kernel, i) \o QForBin(b, i + 1, b.samples)
            IN  [k \in 1 .. Len(updated_samples) |-> Float32(updated_samples[k])]]

\* the store after run's update loop
KernelUpdate(kernel, b) ==
    [i \in Bins |->
        LET updated_samples == KernelGet(kernel, i) \o QForBin(b, i + 1, b.samples)
        IN  [k \in 1 .. Len(updated_samples) |-> Float32(updated_samples[k])]]

\* beam = hist[0]
AssignCounts(beam, hist) == hist

\* beam += hist[0]
AddCounts(beam, hist) == [i \in Bins |-> beam[i] + hist[i]]

\* the accumulated state
Accumulated == [direct_beam |-> direct_beam, reflected_beam |-> reflected_beam,
                _res_kernel |-> _res_kernel]

\* --------------------------------------------------------- operations
\* ReflectSimulator.__init__
Init ==
    /\ wavelength_bins = calculate_wavelength_bins
    /\ direct_beam = [i \in 0 .. (Len(calculate_wavelength_bins) - 2) |-> 0]
    /\ reflected_beam = [i \in 0 .. (Len(calculate_wavelength_bins) - 2) |-> 0]
    /\ _res_kernel = <<>>
    /\ force_gaussian \in BOOLEAN
    /\ force_uniform_wavelength \in BOOLEAN
    /\ model \in Models
    /\ mt_rand \in {RngSeed(s) : s \in Entropy}
    /\ op = "__init__"
    /\ ret = [kind |-> "None"]
    /\ runlog = <<>>
    /\ calls = 0

\* ReflectSimulator.run(samples, random_state)
run(samples, random_state) ==
    \E rng \in {check_random_state(random_state)} :
    \E b \in {Batch(rng, samples)} :
        /\ calls < MaxCalls
        /\ direct_beam' = AddCounts(direct_beam, Histogram(b, AllSamples(b)))
        /\ reflected_beam' = AddCounts(reflected_beam, Histogram(b, b.accepted))
        /\ _res_kernel' = IF KernelFull(_res_kernel) THEN _res_kernel
                          ELSE KernelUpdate(_res_kernel, b)
        /\ mt_rand' = IF random_state = NoneRS THEN b.rng ELSE mt_rand
        /\ op' = "run"
        /\ ret' = [kind |-> "None"]
        /\ runlog' = (IF runlog = <<>> THEN <<>> ELSE <<runlog[Len(runlog)]>>)
                     \o <<[samples |-> samples, random_state |-> random_state,
                           rng |-> rng, before |-> Accumulated]>>
        /\ calls' = calls + 1
        /\ UNCHANGED <<wavelength_bins, force_gaussian,
                       force_uniform_wavelength, model>>

\* ------------------------------------------------- derived properties
\* np.sqrt of a fixed-point value, rounded down
Sqrt(n) == CHOOSE r \in 0 .. n : r * r <= n /\ n < (r + 1) * (r + 1)

Inf == [nan |-> FALSE, inf |-> TRUE, val |-> 0]
Finite(v) == [nan |-> FALSE, inf |-> FALSE, val |-> v]
NotANumber == [nan |-> TRUE, inf |-> FALSE, val |-> 0]

\* numpy's elementwise a / b of float arrays (ErrorProp.EPdiv's first
\* result): 0 / 0 is nan and a / 0 is inf, with a warning and no exception
ArrayDivide(a, b) ==
    IF b = 0 THEN (IF a = 0 THEN NotANumber ELSE Inf)
    ELSE Finite((RngRange * a) \div b)

\* ErrorProp.EPdiv's second result with da = sqrt(a) and db = sqrt(b):
\* sqrt((da / b)^2 + a^2 db^2 / b^4)
EPdivError(a, b) ==
    IF b = 0 THEN (IF a = 0 THEN NotANumber ELSE Inf)
    ELSE Finite(Sqrt((RngRange * RngRange * a * (a + b)) \div (b * b * b)))

\* dataset.synthesise(): y + y_err * (standard normal noise)
Synthesise(y, y_err, u) ==
    IF y.nan \/ y_err.nan THEN NotANumber
    ELSE IF y.inf \/ y_err.inf THEN Inf
    ELSE Finite(y.val + (y_err.val * Normal(u)) \div 4)

\* self.q: the nominal q of each bin, at the bin centre
NominalQ ==
    [i \in Bins |->
        GeneralQ(angle, (wavelength_bins[i + 1] + wavelength_bins[i + 2]) \div 2)]

\* reflectivity taking the square roots in place: np.sqrt(beam, out=beam)
reflectivity_inplace ==
    /\ calls < MaxCalls
    /\ reflected_beam' = [i \in Bins |-> Sqrt(reflected_beam[i])]
    /\ direct_beam' = [i \in Bins |-> Sqrt(direct_beam[i])]
    /\ ret' = [kind |-> "dataset", x |-> NominalQ,
               y |-> [i \in Bins |-> ArrayDivide(reflected_beam[i], direct_beam[i])],
               y_err |-> [i \in Bins |-> EPdivError(reflected_beam[i], direct_beam[i])]]
    /\ mt_rand' = RngAdvance(mt_rand, NBins)
    /\ op' = "reflectivity"
    /\ calls' = calls + 1
    /\ UNCHANGED <<wavelength_bins, _res_kernel,
                   force_gaussian, force_uniform_wavelength, model, runlog>>

\* ReflectSimulator.reflectivity: the ratio of the two histograms with one
\* realization of counting noise, drawn from numpy's global generator
reflectivity ==
    LET noise == RngDraw(mt_rand, NBins)
        ref == [i \in Bins |-> ArrayDivide(reflected_beam[i], direct_beam[i])]
        rerr == [i \in Bins |-> EPdivError(reflected_beam[i], direct_beam[i])]
    IN  /\ calls < MaxCalls
        /\ ret' = [kind |-> "dataset", x |-> NominalQ,
                   y |-> [i \in Bins |-> Synthesise(ref[i], rerr[i], noise[i + 1])],
                   y_err |-> rerr]
        /\ mt_rand' = RngAdvance(mt_rand, NBins)
        /\ op' = "reflectivity"
        /\ calls' = calls + 1
        /\ UNCHANGED <<wavelength_bins, direct_beam, reflected_beam, _res_kernel,
                       force_gaussian, force_uniform_wavelength, model, runlog>>

\* bins=31 of np.histogram in resolution_kernel
HistBins == 31

SeqMin(v) == CHOOSE x \in {v[k] : k \in 1 .. Len(v)} : \A k \in 1 .. Len(v) : x <= v[k]
SeqMax(v) == CHOOSE x \in {v[k] : k \in 1 .. Len(v)} : \A k \in 1 .. Len(v) : x >= v[k]

\* np.histogram(v, density=True, bins=31): HistBins equal bins from min(v)
\* to max(v), the last one closed; an empty v is binned over (0, 1) and its
\* density is 0 / 0; values all equal are binned over (v - 0.5, v + 0.5).
\* The result: range and count per bin (density = count / (n * width)).
Histogram31(v) ==
    IF v = <<>>
    THEN [nan |-> TRUE, lo |-> 0, hi |-> 1, counts |-> [j \in 0 .. (HistBins - 1) |-> 0]]
    ELSE LET lo == SeqMin(v)
             hi == SeqMax(v)
             bin(x) == IF lo = hi THEN HistBins \div 2
                       ELSE IF x = hi THEN HistBins - 1
                       ELSE ((x - lo) * HistBins) \div (hi - lo)
         IN  [nan |-> FALSE, lo |-> lo, hi |-> hi,
              counts |-> [j \in 0 .. (HistBins - 1) |->
                             Cardinality({k \in 1 .. Len(v) : bin(v[k]) = j})]]

\* histos.reverse()
Reverse(s) == [k \in 1 .. Len(s) |-> s[Len(s) + 1 - k]]

\* ReflectSimulator.resolution_kernel: one histogram per stored bin, lowest
\* q first; np.max of an empty list raises ValueError
resolution_kernel ==
    LET histos == [k \in 1 .. Cardinality(DOMAIN _res_kernel) |->
                      Histogram31(_res_kernel[k - 1])]
    IN  /\ calls < MaxCalls
        /\ ret' = IF histos = <<>> THEN [kind |-> "ValueError"]
                  ELSE [kind |-> "kernel", kernel |-> Reverse(histos)]
        /\ op' = "resolution_kernel"
        /\ calls' = calls + 1
        /\ UNCHANGED <<wavelength_bins, direct_beam, reflected_beam, _res_kernel,
                       force_gaussian, force_uniform_wavelength, model, mt_rand,
                       runlog>>

\* the values run accepts as random_state
RandomStates == {NoneRS} \cup {IntRS(s) : s \in Seeds}

Next ==
    \/ \E samples \in 0 .. MaxSamples, random_state \in RandomStates :
          run(samples, random_state)
    \/ reflectivity
    \/ resolution_kernel

Spec == Init /\ [][Next]_vars

\* ------------------------------------------------------------- claims
\* the latest run call and the one before it
LastRun == runlog[Len(runlog)]
PrevRun == runlog[1]

\* the samples a logged run call drew
BatchOf(call) == Batch(call.rng, call.samples)

\* the skip condition of step 8, written out: a non-empty store in which
\* every bin holds more than Cap values
EveryBinOverCap(kernel) ==
    /\ kernel # <<>>
    /\ \A i \in DOMAIN kernel : Len(kernel[i]) >= Cap + 1

Zero == [i \in Bins |-> 0]
Plus(f, g) == [i \in Bins |-> f[i] + g[i]]
Minus(f, g) == [i \in Bins |-> f[i] - g[i]]

\* C1 (conservation): in every state reachable by run calls the reflected
\* count of a bin is at most its direct count, whatever the flags and
\* whatever the reflectivity model returns.
C1_Conservation == \A i \in Bins : reflected_beam[i] <= direct_beam[i]

C1_Witness ==
    /\ op = "run"
    /\ model = "wild"
    /\ \E i \in Bins : reflected_beam[i] > 0
    /\ \E i \in Bins : reflected_beam[i] < direct_beam[i]

\* C7 (monotonicity): no step lowers a bin of direct_beam or of
\* reflected_beam, and both are non-negative in every state.
C7_Monotone ==
    /\ [][\A i \in Bins : /\ direct_beam'[i] >= direct_beam[i]
                          /\ reflected_beam'[i] >= reflected_beam[i]]_vars
    /\ [](\A i \in Bins : direct_beam[i] >= 0 /\ reflected_beam[i] >= 0)

C7_Witness ==
    /\ Len(runlog) = 2
    /\ \E i \in Bins : /\ LastRun.before.direct_beam[i] > 0
                       /\ direct_beam[i] > LastRun.before.direct_beam[i]
    /\ \E i \in Bins : /\ LastRun.before.reflected_beam[i] > 0
                       /\ reflected_beam[i] > LastRun.before.reflected_beam[i]

\* C8 (zero model): with a reflectivity model that is 0 everywhere the
\* reflected beam stays all zeros.
C8_ZeroModel == model = "zero" => \A i \in Bins : reflected_beam[i] = 0

C8_Witness ==
    /\ model = "zero"
    /\ Len(runlog) = 2
    /\ \A i \in Bins : direct_beam[i] > 0

\* C10 (store and histogram): a bin never stores more q values than its
\* direct count, and from the first run call on the store has one entry per
\* wavelength bin.
C10_StoreWithinCounts ==
    /\ \A i \in DOMAIN _res_kernel : Len(_res_kernel[i]) <= direct_beam[i]
    /\ runlog # <<>> => DOMAIN _res_kernel = Bins

C10_Witness ==
    /\ op = "run"
    /\ DOMAIN _res_kernel = Bins
    /\ \E i \in Bins : _res_kernel[i] = <<>> /\ direct_beam[i] = 0
    /\ \E i \in Bins : _res_kernel[i] # <<>> /\ Len(_res_kernel[i]) < direct_beam[i]

\* C6 (read-only properties): a step that evaluates reflectivity or
\* resolution_kernel leaves the two histograms, the store and the bin
\* edges as they were.
C6_ReadOnly ==
    [][(calls' # calls /\ op' \in {"reflectivity", "resolution_kernel"})
          => UNCHANGED <<direct_beam, reflected_beam, _res_kernel,
                         wavelength_bins>>]_vars

C6_Witness ==
    /\ op \in {"reflectivity", "resolution_kernel"}
    /\ ret.kind \in {"dataset", "kernel"}
    /\ runlog # <<>>
    /\ \E i \in Bins : reflected_beam[i] > 0
    /\ \E i \in DOMAIN _res_kernel : _res_kernel[i] # <<>>

\* C5 (division by zero): reading reflectivity while some bin has a direct
\* count of 0 ends in a division-by-zero error, not in a dataset.
C5_ZeroDivisionError ==
    (op = "reflectivity" /\ \E i \in Bins : direct_beam[i] = 0)
        => ret.kind = "ZeroDivisionError"

\* the q values a call appended to bin i of the store, given the store
\* before and after it
Appended(before, after, i) ==
    SubSeq(after[i], Len(KernelGet(before, i)) + 1, Len(after[i]))

\* the samples of batch b whose jittered wavelength lies in the half-open
\* bin i, [wavelength_bins[i], wavelength_bins[i+1]) counting from 0
SamplesInBin(b, i) ==
    SelectSeq([k \in 1 .. b.samples |-> k],
              LAMBDA k : /\ wavelength_bins[i + 1] <= b.jittered_wavelengths[k]
                         /\ b.jittered_wavelengths[k] < wavelength_bins[i + 2])

\* the single-precision q values of those samples, in sample order
StoredQ(b, i) ==
    [j \in 1 .. Len(SamplesInBin(b, i)) |-> Float32(b.q[SamplesInBin(b, i)[j]])]

\* the per-bin counts of a batch: all samples, and the accepted ones
DirectCounts(b) ==
    [i \in Bins |-> Cardinality({k \in 1 .. b.samples :
        InHistBin(b.jittered_wavelengths[k], i)})]
ReflectedCounts(b) ==
    [i \in Bins |-> Cardinality({k \in 1 .. b.samples :
        b.accepted[k] /\ InHistBin(b.jittered_wavelengths[k], i)})]

\* both histograms hold what they held before the latest run call plus
\* that call's counts
BeamsUpdated ==
    /\ direct_beam = Plus(LastRun.before.direct_beam, DirectCounts(BatchOf(LastRun)))
    /\ reflected_beam = Plus(LastRun.before.reflected_beam,
                             ReflectedCounts(BatchOf(LastRun)))

\* the latest run call appended to every bin of the store the q values of
\* its samples in that bin
StoreAppended ==
    /\ DOMAIN _res_kernel = Bins
    /\ \A i \in Bins :
          _res_kernel[i] = KernelGet(LastRun.before._res_kernel, i)
                           \o StoredQ(BatchOf(LastRun), i)

\* C9 as stated (step 8 is all-or-nothing): after a run call the store is
\* unchanged exactly when that call started with a non-empty store whose
\* every bin held more than Cap values; in every other case each bin got the
\* q values of the call's samples in it; both histograms got the batch's
\* counts either way.
C9_UnchangedExactlyWhenFull ==
    runlog # <<>> =>
        /\ (_res_kernel = LastRun.before._res_kernel)
              <=> EveryBinOverCap(LastRun.before._res_kernel)
        /\ ~EveryBinOverCap(LastRun.before._res_kernel) => StoreAppended
        /\ BeamsUpdated

\* C9 as amended: a call that started with every bin over the cap leaves the
\* store unchanged; every other call appends to each bin, in sample order,
\* the single-precision q values of its samples whose jittered wavelength
\* lies in the half-open bin (nothing, when no sample lies in it); both
\* histograms got the batch's counts either way.
C9_Step8 ==
    runlog # <<>> =>
        /\ EveryBinOverCap(LastRun.before._res_kernel)
              => _res_kernel = LastRun.before._res_kernel
        /\ ~EveryBinOverCap(LastRun.before._res_kernel) => StoreAppended
        /\ BeamsUpdated

\* a call that was skipped and counted, after a call that appended
C9_Witness ==
    /\ Len(runlog) = 2
    /\ op = "run"
    /\ ~EveryBinOverCap(PrevRun.before._res_kernel)
    /\ LastRun.before._res_kernel # PrevRun.before._res_kernel
    /\ EveryBinOverCap(LastRun.before._res_kernel)
    /\ direct_beam # LastRun.before.direct_beam
    /\ reflected_beam # LastRun.before.reflected_beam

\* C2 as stated (the cap is per bin): once a bin of the store holds more
\* than Cap values, no step adds to that bin.
C2_PerBinCap ==
    [][\A i \in DOMAIN _res_kernel :
          Len(_res_kernel[i]) > Cap => Len(_res_kernel'[i]) <= Len(_res_kernel[i])]_vars

\* C2 as amended: once every bin of the store holds more than Cap values, no
\* step changes the store, while a run call still adds its counts to both
\* histograms.
C2_AllBinsCap ==
    [][EveryBinOverCap(_res_kernel) =>
          /\ _res_kernel' = _res_kernel
          /\ (calls' # calls /\ op' = "run") =>
                /\ direct_beam' = Plus(direct_beam, DirectCounts(BatchOf(LastRun')))
                /\ reflected_beam' = Plus(reflected_beam,
                                          ReflectedCounts(BatchOf(LastRun')))]_vars

C2_Witness ==
    /\ op = "run"
    /\ EveryBinOverCap(LastRun.before._res_kernel)
    /\ \E i \in Bins : direct_beam[i] > LastRun.before.direct_beam[i]

\* the latest two run calls drew from numpy's global generator, the second
\* continuing the stream where the first stopped
StreamContinued ==
    /\ Len(runlog) = 2
    /\ PrevRun.random_state = NoneRS
    /\ LastRun.random_state = NoneRS
    /\ LastRun.rng = BatchOf(PrevRun).rng

\* what the two calls together added to the histograms
AddedByTwo ==
    [direct_beam |-> Minus(direct_beam, PrevRun.before.direct_beam),
     reflected_beam |-> Minus(reflected_beam, PrevRun.before.reflected_beam)]

\* what one call of n samples adds when its generator starts in state x
AddedByOne(x, n) ==
    [direct_beam |-> DirectCounts(Batch(x, n)),
     reflected_beam |-> ReflectedCounts(Batch(x, n))]

\* the batch whose samples are those of b1 followed by those of b2
Concat(b1, b2) ==
    [samples |-> b1.samples + b2.samples,
     q |-> b1.q \o b2.q,
     accepted |-> b1.accepted \o b2.accepted,
     jittered_wavelengths |-> b1.jittered_wavelengths \o b2.jittered_wavelengths,
     rng |-> b2.rng]

\* C3 as stated (additivity): two run calls of a and b samples on one
\* continuing stream add to the histograms what a single call of a + b
\* samples on the same stream adds.
C3_StreamAdditive ==
    StreamContinued =>
        AddedByTwo = AddedByOne(PrevRun.rng, PrevRun.samples + LastRun.samples)

\* C3 as amended: the two calls add what a single call adds whose samples
\* are the samples of the two calls in order; that is the single call of
\* a + b samples on the same stream when a or b is 0.
C3_BatchAdditive ==
    StreamContinued =>
        /\ AddedByTwo.direct_beam
              = DirectCounts(Concat(BatchOf(PrevRun), BatchOf(LastRun)))
        /\ AddedByTwo.reflected_beam
              = ReflectedCounts(Concat(BatchOf(PrevRun), BatchOf(LastRun)))
        /\ (PrevRun.samples = 0 \/ LastRun.samples = 0) =>
              AddedByTwo = AddedByOne(PrevRun.rng, PrevRun.samples + LastRun.samples)

C3_Witness ==
    /\ StreamContinued
    /\ PrevRun.samples > 0
    /\ LastRun.samples > 0
    /\ PrevRun.before.direct_beam # Zero
    /\ AddedByTwo.reflected_beam # Zero
    /\ AddedByTwo # AddedByOne(PrevRun.rng, PrevRun.samples + LastRun.samples)

\* the latest two run calls got the same integer seed and sample count
SameSeedTwice ==
    /\ Len(runlog) = 2
    /\ PrevRun.random_state # NoneRS
    /\ LastRun.random_state = PrevRun.random_state
    /\ LastRun.samples = PrevRun.samples

SameBeamDeltas ==
    /\ Minus(direct_beam, LastRun.before.direct_beam)
          = Minus(LastRun.before.direct_beam, PrevRun.before.direct_beam)
    /\ Minus(reflected_beam, LastRun.before.reflected_beam)
          = Minus(LastRun.before.reflected_beam, PrevRun.before.reflected_beam)

SameStoreDeltas ==
    \A i \in Bins :
        Appended(LastRun.before._res_kernel, _res_kernel, i)
            = Appended(PrevRun.before._res_kernel, LastRun.before._res_kernel, i)

\* C4 as stated (determinism under a seed): two run calls with the same
\* integer seed and sample count change the histograms and the store by the
\* same deltas, whatever the state each started in.
C4_SameDeltas == SameSeedTwice => SameBeamDeltas /\ SameStoreDeltas

\* C4 as amended: the two calls change the histograms by the same deltas;
\* they append the same q values to the store when both or neither started
\* with every bin over the cap.
C4_SameDeltasUnlessCapped ==
    SameSeedTwice =>
        /\ SameBeamDeltas
        /\ (EveryBinOverCap(PrevRun.before._res_kernel)
               <=> EveryBinOverCap(LastRun.before._res_kernel)) => SameStoreDeltas

C4_Witness ==
    /\ SameSeedTwice
    /\ PrevRun.before.direct_beam # Zero
    /\ LastRun.before # PrevRun.before
    /\ Minus(reflected_beam, LastRun.before.reflected_beam) # Zero
    /\ \E i \in Bins : Appended(LastRun.before._res_kernel, _res_kernel, i) # <<>>

====
